---- MODULE Spec2Model ----
(***************************************************************************)
(* Model of frames.py: a one-shot script that loads a table, adds derived  *)
(* fields, filters, groups/pivots, rounds, filters again, sorts and        *)
(* exports.                                                                *)
(*                                                                         *)
(* Encoding of Python/pandas values:                                       *)
(*   - an optional value is a tuple of length 0 (None) or 1 (<<x>>);       *)
(*   - a cell or operand is optional in the same way: <<>> is NaN/None;    *)
(*   - a dict is the sequence of its items in iteration order;             *)
(*   - a text (for the str predicates) is a tuple of one-character strings;*)
(*   - a table is [iname, cols, rows]; a row is [idx, v], v aligned with   *)
(*     cols, idx the row label (index) of the DataFrame.                   *)
(***************************************************************************)
EXTENDS Integers, Sequences, FiniteSets, TLC

VARIABLES
    pc,               \* position in the script body
    origen,           \* sys.argv[1]: "datos.csv", "datos.xlsx" or a query
    fuente,           \* the table the source holds (file content / result set)
    agrupacion,       \* optional list of group fields         (argv[2])
    acciones,         \* optional aggregation dict             (argv[3])
    calculados,       \* optional derived-field dict           (argv[4])
    destino,          \* optional destination path             (argv[5])
    pivoteo,          \* optional pivot_table kwargs           (argv[6])
    mostrar,          \* human-readable flag                   (argv[7])
    decimales,        \* rounding precision                    (argv[8])
    retornar_base64,  \* encoded-return flag                   (argv[9])
    filtro,           \* optional pre-filter dict              (argv[10])
    orden,            \* optional sort dict                    (argv[11])
    filtro_final,     \* optional post-filter dict, as the script keeps it
    argv_filtro_final,\* optional post-filter dict, as supplied  (argv[12])
    df,               \* working table
    resultado,        \* result table
    conn,             \* connection: "none", "open", "closed"
    cierres,          \* number of conn.close() calls
    salida,           \* what was printed on standard output, in order
    disco,            \* set of paths that exist on disk
    eventos,          \* file-system events, in order
    etapas,           \* the stages run so far, each with its input and output table
    codigo            \* process exit status: -1 while running

vars == <<pc, origen, fuente, agrupacion, acciones, calculados, destino, pivoteo,
          mostrar, decimales, retornar_base64, filtro, orden, filtro_final, df,
          resultado, conn, cierres, salida, disco, eventos, etapas, codigo,
          argv_filtro_final>>

\* what the script never assigns after reading sys.argv
config == <<origen, fuente, agrupacion, acciones, calculados, destino, pivoteo,
            mostrar, decimales, retornar_base64, filtro, orden, argv_filtro_final>>

------------------------------------------------------------------------------
(* Bounds of the model *)

\* the most rows a source table has
MaxFilas == 2

------------------------------------------------------------------------------
(* Values *)

None == <<>>

Some(x) == <<x>>

NaN == <<>>

EsNulo(x) == x = <<>>

CatVals == {"A", "B"}

AmtVals == {5, 12}

\* columns holding text; every other column holds integers
EsTexto(c) == c \in {"cat", "index"}

\* collation rank of the text values of the model ("A" < "B" < "amt")
Rango(s) == CASE s = "A" -> 1 [] s = "B" -> 2 [] OTHER -> 3

\* a totally ordered key for a non-null cell of column c
Clave(c, x) == IF EsTexto(c) THEN Rango(x[1]) ELSE x[1]

RECURSIVE Digitos(_)
Digitos(n) ==
    IF n < 10 THEN <<CASE n = 0 -> "0" [] n = 1 -> "1" [] n = 2 -> "2" [] n = 3 -> "3"
                       [] n = 4 -> "4" [] n = 5 -> "5" [] n = 6 -> "6" [] n = 7 -> "7"
                       [] n = 8 -> "8" [] OTHER -> "9">>
    ELSE Digitos(n \div 10) \o Digitos(n % 10)

\* Series.astype(str): NaN becomes the text "nan"
astype_str(c, x) ==
    IF EsNulo(x) THEN <<"n", "a", "n">>
    ELSE IF EsTexto(c)
         THEN (IF x[1] = "amt" THEN <<"a", "m", "t">> ELSE <<x[1]>>)
         ELSE (IF x[1] < 0 THEN <<"-">> \o Digitos(-x[1]) ELSE Digitos(x[1]))

------------------------------------------------------------------------------
(* Tables *)

Tabla(iname, cols, rows) == [iname |-> iname, cols |-> cols, rows |-> rows]

TieneCol(t, c) == \E i \in 1..Len(t.cols) : t.cols[i] = c

Pos(t, c) == CHOOSE i \in 1..Len(t.cols) : t.cols[i] = c

Celda(t, r, c) == r.v[Pos(t, c)]

RECURSIVE Seleccion(_, _)
\* the rows of `rows` at which mask is TRUE, in order (boolean indexing df[mask])
Seleccion(rows, mask) ==
    IF rows = <<>> THEN <<>>
    ELSE (IF mask[1] THEN <<rows[1]>> ELSE <<>>) \o Seleccion(Tail(rows), Tail(mask))

Error == [err |-> TRUE]

Ok(t) == [err |-> FALSE, t |-> t]

------------------------------------------------------------------------------
(* filtrar: src/frames.py 122-153 *)

\* str(x).lower() on the operator and direction spellings of the model
lower(op) ==
    CASE op = "IN" -> "in"
      [] op = "NOT IN" -> "not in"
      [] op = "Contains" -> "contains"
      [] op = "ASC" -> "asc"
      [] op = "DESC" -> "desc"
      [] OTHER -> op

Operadores == {"==", "!=", ">", "<", ">=", "<=", "in", "not in",
               "contains", "startswith", "endswith"}

\* Series == scalar, element-wise: a null on either side compares unequal
eq(x, y) == ~EsNulo(x) /\ ~EsNulo(y) /\ x[1] = y[1]

\* "different" with a null never different (three-valued comparison)
ne_nulo_falso(x, y) == ~EsNulo(x) /\ ~EsNulo(y) /\ x[1] # y[1]

\* Series != scalar, element-wise: a null on either side compares different
ne(x, y) == EsNulo(x) \/ EsNulo(y) \/ x[1] # y[1]

\* Series.isin(list)
isin(x, lista) == \E i \in 1..Len(lista) : lista[i] = x

str_startswith(txt, pat) == Len(pat) <= Len(txt) /\ SubSeq(txt, 1, Len(pat)) = pat

str_endswith(txt, pat) ==
    Len(pat) <= Len(txt) /\ SubSeq(txt, Len(txt) - Len(pat) + 1, Len(txt)) = pat

str_contains(txt, pat) ==
    \E i \in 1..(Len(txt) + 1) :
        i + Len(pat) - 1 <= Len(txt) /\ SubSeq(txt, i, i + Len(pat) - 1) = pat

\* the boolean the comparison of lines 129-150 gives for one cell
Cumple(c, operador, x, valor) ==
    CASE operador = "==" -> eq(x, valor)
      [] operador = "!=" -> ne(x, valor)
      [] operador = ">"  -> ~EsNulo(x) /\ Clave(c, x) > Clave(c, valor)
      [] operador = "<"  -> ~EsNulo(x) /\ Clave(c, x) < Clave(c, valor)
      [] operador = ">=" -> ~EsNulo(x) /\ Clave(c, x) >= Clave(c, valor)
      [] operador = "<=" -> ~EsNulo(x) /\ Clave(c, x) <= Clave(c, valor)
      [] operador = "in" -> isin(x, valor)
      [] operador = "not in" -> ~isin(x, valor)
      [] operador = "contains" -> str_contains(astype_str(c, x), valor)
      [] operador = "startswith" -> str_startswith(astype_str(c, x), valor)
      [] operador = "endswith" -> str_endswith(astype_str(c, x), valor)

\* filtrar_item reading df[campo] before it looks at the operator
filtrar_item_lee_campo(t, campo, valor) ==
    IF Len(valor) # 2 THEN Ok(t)
    ELSE IF ~TieneCol(t, campo) THEN Error
    ELSE IF lower(valor[1]) \notin Operadores THEN Ok(t)
    ELSE IF lower(valor[1]) \in {">", "<", ">=", "<="} /\ EsNulo(valor[2]) THEN Error
    ELSE Ok([t EXCEPT !.rows =
                Seleccion(t.rows,
                          [i \in 1..Len(t.rows) |->
                              Cumple(campo, lower(valor[1]),
                                     Celda(t, t.rows[i], campo), valor[2])])])

\* one item (campo, valor) of the filter dict applied to table t
filtrar_item(t, campo, valor) ==
    IF Len(valor) # 2 THEN Ok(t)                       \* line 127: not a 2-list
    ELSE LET operador == lower(valor[1])
             operando == valor[2]
         IN  IF operador \notin Operadores THEN Ok(t)  \* no branch of 129-150 matches
             ELSE IF ~TieneCol(t, campo) THEN Error    \* df[campo]: KeyError
             ELSE IF operador \in {">", "<", ">=", "<="} /\ EsNulo(operando)
                  THEN Error                           \* ordering against None: TypeError
             ELSE Ok([t EXCEPT !.rows =
                        Seleccion(t.rows,
                                  [i \in 1..Len(t.rows) |->
                                      Cumple(campo, operador,
                                             Celda(t, t.rows[i], campo), operando)])])

RECURSIVE filtrar_items(_, _)
filtrar_items(t, items) ==
    IF items = <<>> THEN Ok(t)
    ELSE LET r == filtrar_item(t, items[1][1], items[1][2])
         IN  IF r.err THEN Error ELSE filtrar_items(r.t, Tail(items))

filtrar(t, f) == IF f = None THEN Ok(t) ELSE filtrar_items(t, f[1])

------------------------------------------------------------------------------
(* campos_derivados: src/frames.py 113-120 *)

\* a formula is <<operand, op, operand>>; an operand is <<column>> or <<"lit", n>>
Referencias(formula) ==
    {formula[k][1] : k \in {i \in {1, 3} : Len(formula[i]) = 1}}

Operando(t, r, o) == IF Len(o) = 1 THEN Celda(t, r, o[1])[1] ELSE o[2]

\* df.eval(formula) for one row
eval(t, r, formula) ==
    LET a == Operando(t, r, formula[1])
        b == Operando(t, r, formula[3])
    IN  <<IF formula[2] = "*" THEN a * b ELSE a + b>>

\* df[campo] = df.eval(formula): overwrite the column, or append it
asignar(t, campo, formula) ==
    IF TieneCol(t, campo)
    THEN [t EXCEPT !.rows = [i \in 1..Len(t.rows) |->
             [t.rows[i] EXCEPT !.v[Pos(t, campo)] = eval(t, t.rows[i], formula)]]]
    ELSE [t EXCEPT !.cols = Append(t.cols, campo),
                   !.rows = [i \in 1..Len(t.rows) |->
             [t.rows[i] EXCEPT !.v = Append(@, eval(t, t.rows[i], formula))]]]

RECURSIVE derivar_items(_, _)
derivar_items(t, items) ==
    IF items = <<>> THEN Ok(t)
    ELSE IF \E c \in Referencias(items[1][2]) : ~TieneCol(t, c)
         THEN Error                                   \* df.eval: undefined variable
         ELSE derivar_items(asignar(t, items[1][1], items[1][2]), Tail(items))

campos_derivados(t, c) == IF c = None THEN Ok(t) ELSE derivar_items(t, c[1])

------------------------------------------------------------------------------
(* ordenar: src/frames.py 155-163 *)

\* the value DataFrame.sort_values reads for key c: a column, or the index level
ValorOrden(t, r, c) == IF TieneCol(t, c) THEN Celda(t, r, c) ELSE r.idx

\* -1, 0, 1: order of cells x and y under one key; NaN goes last in both directions
Comparar(c, asc, x, y) ==
    IF EsNulo(x) /\ EsNulo(y) THEN 0
    ELSE IF EsNulo(x) THEN 1
    ELSE IF EsNulo(y) THEN -1
    ELSE LET a == Clave(c, x)
             b == Clave(c, y)
         IN  IF a = b THEN 0
             ELSE IF (a < b) = asc THEN -1 ELSE 1

RECURSIVE CompararClaves(_, _, _, _, _)
\* lexicographic order of rows r and s under keys cols[k..]
CompararClaves(t, cols, asc, r, s) ==
    IF cols = <<>> THEN 0
    ELSE LET c == Comparar(cols[1], asc[1], ValorOrden(t, r, cols[1]),
                           ValorOrden(t, s, cols[1]))
         IN  IF c # 0 THEN c
             ELSE CompararClaves(t, Tail(cols), Tail(asc), r, s)

Permutaciones(n) ==
    {p \in [1..n -> 1..n] : \A i, j \in 1..n : i # j => p[i] # p[j]}

\* lexsort_indexer (two or more keys): the stable order
OrdenEstable(t, cols, asc) ==
    {p \in Permutaciones(Len(t.rows)) :
        \A i, j \in 1..Len(t.rows) : i < j =>
            LET c == CompararClaves(t, cols, asc, t.rows[p[i]], t.rows[p[j]])
            IN  c < 0 \/ (c = 0 /\ p[i] < p[j])}

\* nargsort(kind="quicksort") (one key): non-null rows sorted by an unstable
\* algorithm, so tied rows come in any order; null rows appended in input order
OrdenQuicksort(t, cols, asc) ==
    {p \in Permutaciones(Len(t.rows)) :
        \A i, j \in 1..Len(t.rows) : i < j =>
            LET c == CompararClaves(t, cols, asc, t.rows[p[i]], t.rows[p[j]])
                nulos == EsNulo(ValorOrden(t, t.rows[p[i]], cols[1]))
            IN  c < 0 \/ (c = 0 /\ (nulos => p[i] < p[j]))}

\* the row orders df.sort_values(by=columnas, ascending=ascendente) can give
sort_values(t, columnas, ascendente) ==
    IF Len(columnas) > 1 THEN OrdenEstable(t, columnas, ascendente)
    ELSE OrdenQuicksort(t, columnas, ascendente)

\* the set of outcomes of ordenar(df, orden)
ordenar(t, o) ==
    IF o = None THEN {Ok(t)}
    ELSE LET columnas == [i \in 1..Len(o[1]) |-> o[1][i][1]]
             ascendente == [i \in 1..Len(o[1]) |-> lower(o[1][i][2]) = "asc"]
         IN  IF columnas = <<>> THEN {Ok(t)}           \* by=[]: nothing to sort
             ELSE IF \E i \in 1..Len(columnas) :
                    ~TieneCol(t, columnas[i]) /\ columnas[i] # t.iname
             THEN {Error}                              \* KeyError
             ELSE {Ok([t EXCEPT !.rows = [i \in 1..Len(t.rows) |-> t.rows[p[i]]]]) :
                      p \in sort_values(t, columnas, ascendente)}

------------------------------------------------------------------------------
(* The aggregation / pivot step: src/frames.py 244-254 *)

RECURSIVE Suma(_)
Suma(s) == IF s = <<>> THEN 0 ELSE s[1] + Suma(Tail(s))

RECURSIVE Extremo(_, _)
Extremo(s, mayor) ==
    IF Len(s) = 1 THEN s[1]
    ELSE LET m == Extremo(Tail(s), mayor)
         IN  IF (s[1] > m) = mayor THEN s[1] ELSE m

FuncionesAgg == {"sum", "count", "min", "max"}

\* one aggregate of the non-null cells xs (a sequence of cells) of a column
agregar(func, xs) ==
    LET vals == [i \in 1..Len(xs) |-> xs[i][1]]
    IN  CASE func = "sum" -> <<Suma(vals)>>
          [] func = "count" -> <<Len(vals)>>
          [] func = "min" -> IF vals = <<>> THEN NaN ELSE <<Extremo(vals, FALSE)>>
          [] func = "max" -> IF vals = <<>> THEN NaN ELSE <<Extremo(vals, TRUE)>>

\* the key of row r: its cells in the group fields
ClaveGrupo(t, campos, r) == [k \in 1..Len(campos) |-> Celda(t, r, campos[k])]

\* groupby(..., dropna=False): every row takes part
FilasAgrupables_con_nulos(t, campos) == t.rows

\* groupby(..., dropna=True): rows with a null in a group field take no part
FilasAgrupables(t, campos) ==
    Seleccion(t.rows, [i \in 1..Len(t.rows) |->
        \A k \in 1..Len(campos) : ~EsNulo(Celda(t, t.rows[i], campos[k]))])

ClavesGrupo(t, campos) ==
    {ClaveGrupo(t, campos, FilasAgrupables(t, campos)[i]) :
        i \in 1..Len(FilasAgrupables(t, campos))}

RECURSIVE CompararGrupo(_, _, _)
CompararGrupo(campos, a, b) ==
    IF campos = <<>> THEN 0
    ELSE LET c == Comparar(campos[1], TRUE, a[1], b[1])
         IN  IF c # 0 THEN c ELSE CompararGrupo(Tail(campos), Tail(a), Tail(b))

\* groupby(..., sort=True): the distinct keys in ascending order
ClavesOrdenadas(t, campos) ==
    LET K == ClavesGrupo(t, campos)
    IN  CHOOSE s \in [1..Cardinality(K) -> K] :
            \A i, j \in 1..Cardinality(K) :
                i < j => CompararGrupo(campos, s[i], s[j]) < 0

FilasDeGrupo(t, campos, k) ==
    Seleccion(t.rows, [i \in 1..Len(t.rows) |-> ClaveGrupo(t, campos, t.rows[i]) = k])

\* the non-null cells of column c in `rows`
NoNulos(t, rows, c) ==
    LET xs == [i \in 1..Len(rows) |-> Celda(t, rows[i], c)]
    IN  Seleccion(xs, [i \in 1..Len(xs) |-> ~EsNulo(xs[i])])

AccionesValidas(t, acc) ==
    \A i \in 1..Len(acc) :
        /\ TieneCol(t, acc[i][1])
        /\ acc[i][2] \in FuncionesAgg
        /\ (EsTexto(acc[i][1]) => acc[i][2] = "count")

\* df.groupby(agrupacion).size().reset_index(name="cantidad")
groupby_size(t, campos) ==
    IF campos = <<>> \/ \E k \in 1..Len(campos) : ~TieneCol(t, campos[k])
    THEN Error                                         \* no keys / KeyError
    ELSE LET ks == ClavesOrdenadas(t, campos)
         IN  Ok(Tabla("", Append(campos, "cantidad"),
                      [g \in 1..Len(ks) |->
                          [idx |-> g - 1,
                           v |-> Append(ks[g], <<Len(FilasDeGrupo(t, campos, ks[g]))>>)]]))

\* df.groupby(agrupacion).agg(acciones).reset_index()
groupby_agg(t, campos, acc) ==
    IF campos = <<>> \/ \E k \in 1..Len(campos) : ~TieneCol(t, campos[k])
    THEN Error                                         \* no keys / KeyError
    ELSE IF ~AccionesValidas(t, acc) THEN Error        \* unknown column or function
    ELSE IF \E i \in 1..Len(acc), k \in 1..Len(campos) : acc[i][1] = campos[k]
    THEN Error                                         \* reset_index: column exists
    ELSE LET ks == ClavesOrdenadas(t, campos)
         IN  Ok(Tabla("", campos \o [i \in 1..Len(acc) |-> acc[i][1]],
                      [g \in 1..Len(ks) |->
                          [idx |-> g - 1,
                           v |-> ks[g] \o
                                 [i \in 1..Len(acc) |->
                                     agregar(acc[i][2],
                                             NoNulos(t, FilasDeGrupo(t, campos, ks[g]),
                                                     acc[i][1]))]]]))

\* df.agg(acciones).reset_index(): one row per item of acciones
bare_agg(t, acc) ==
    IF ~AccionesValidas(t, acc) THEN Error
    ELSE Ok(Tabla("", <<"index", "0">>,
                  [i \in 1..Len(acc) |->
                      [idx |-> i - 1,
                       v |-> << <<acc[i][1]>>,
                                agregar(acc[i][2], NoNulos(t, t.rows, acc[i][1])) >>]]))

\* df.pivot_table(index=..., values=..., aggfunc=...): the index field becomes
\* the row label, one row per non-null index value, in ascending order
pivot_table(t, p) ==
    IF ~TieneCol(t, p.index) \/ ~AccionesValidas(t, << <<p.values, p.aggfunc>> >>)
       \/ p.index = p.values
    THEN Error
    ELSE LET ks == ClavesOrdenadas(t, <<p.index>>)
         IN  Ok(Tabla(p.index, <<p.values>>,
                      [g \in 1..Len(ks) |->
                          [idx |-> ks[g][1],
                           v |-> <<agregar(p.aggfunc,
                                           NoNulos(t, FilasDeGrupo(t, <<p.index>>, ks[g]),
                                                   p.values))>>]]))

\* the branches with the grouping tests ahead of the pivot test
modo_agrupacion_primero(agr, acc, piv) ==
    IF agr # None /\ acc # None THEN "grouped_agg"
    ELSE IF agr # None /\ acc = None THEN "grouped_count"
    ELSE IF piv # None THEN "pivot"
    ELSE IF agr = None /\ acc # None THEN "bare_agg"
    ELSE "pass_through"

\* which branch of lines 245-254 runs
modo(agr, acc, piv) ==
    IF piv # None THEN "pivot"
    ELSE IF agr # None /\ acc # None THEN "grouped_agg"
    ELSE IF agr # None /\ acc = None THEN "grouped_count"
    ELSE IF agr = None /\ acc # None THEN "bare_agg"
    ELSE "pass_through"

transformar(t, agr, acc, piv) ==
    CASE modo(agr, acc, piv) = "pivot" -> pivot_table(t, piv[1])
      [] modo(agr, acc, piv) = "grouped_agg" -> groupby_agg(t, agr[1], acc[1])
      [] modo(agr, acc, piv) = "grouped_count" -> groupby_size(t, agr[1])
      [] modo(agr, acc, piv) = "bare_agg" -> bare_agg(t, acc[1])
      [] OTHER -> Ok(t)

------------------------------------------------------------------------------
(* Rounding: src/frames.py 257-258 *)

RECURSIVE Pot10(_)
Pot10(n) == IF n = 0 THEN 1 ELSE 10 * Pot10(n - 1)

\* numpy's round of an integer x to d decimals: unchanged for d >= 0, to the
\* nearest multiple of 10^-d (ties to the even multiple) for d < 0
redondear(x, d) ==
    IF d >= 0 THEN x
    ELSE LET m == Pot10(-d)
             q == x \div m
             r == x % m
         IN  IF 2 * r < m THEN q * m
             ELSE IF 2 * r > m THEN (q + 1) * m
             ELSE IF q % 2 = 0 THEN q * m ELSE (q + 1) * m

\* DataFrame.round(d): numeric columns only
round(t, d) ==
    [t EXCEPT !.rows = [i \in 1..Len(t.rows) |->
        [t.rows[i] EXCEPT !.v = [k \in 1..Len(t.cols) |->
            IF EsTexto(t.cols[k]) \/ EsNulo(t.rows[i].v[k]) THEN t.rows[i].v[k]
            ELSE <<redondear(t.rows[i].v[k][1], d)>>]]]]

------------------------------------------------------------------------------
(* Paths: the str methods the script applies to origen and destino *)

Rutas == {"", "None", " none ", "out.csv", "out.xlsx", "OUT.XLSX", "out.txt"}

Origenes == {"datos.csv", "datos.xlsx", "EXEC sp_ventas"}

strip(p) == IF p = " none " THEN "none" ELSE p

path_lower(p) ==
    CASE p = "None" -> "none"
      [] p = "OUT.XLSX" -> "out.xlsx"
      [] OTHER -> p

endswith(p, ext) ==
    CASE ext = ".csv" -> p \in {"out.csv", "datos.csv"}
      [] ext = ".xlsx" -> p \in {"out.xlsx", "datos.xlsx"}
      [] OTHER -> FALSE

\* Path(destino).with_suffix(".json")
with_suffix_json(p) ==
    CASE p \in {"out.csv", "out.xlsx", "out.txt"} -> "out.json"
      [] p = "OUT.XLSX" -> "OUT.json"
      [] OTHER -> p

------------------------------------------------------------------------------
(* The script body: src/frames.py 182-313 *)

TablaVacia == Tabla("", <<>>, <<>>)

Etapa(nombre, entrada, out) == [nombre |-> nombre, entrada |-> entrada, salida |-> out]

\* the same statements with the post-filter placed before the rounding
siguiente_filtro_antes(p) ==
    CASE p = "obtener_datos" -> "campos_derivados"
      [] p = "campos_derivados" -> "filtrar"
      [] p = "filtrar" -> "transformar"
      [] p = "transformar" -> "filtro_final"
      [] p = "filtro_final" -> "redondeo"
      [] p = "redondeo" -> "ordenar"
      [] p = "ordenar" -> "exportar"
      [] p = "exportar" -> "imprimir"

\* the statement that follows each pipeline statement of lines 232-267
siguiente(p) ==
    CASE p = "obtener_datos" -> "campos_derivados"
      [] p = "campos_derivados" -> "filtrar"
      [] p = "filtrar" -> "transformar"
      [] p = "transformar" -> "redondeo"
      [] p = "redondeo" -> "filtro_final"
      [] p = "filtro_final" -> "ordenar"
      [] p = "ordenar" -> "exportar"
      [] p = "exportar" -> "imprimir"

\* the script without lines 228-229: the supplied post-filter is always kept
filtro_final_sin_descarte(agr, piv, ff) == ff

\* lines 228-229: the post-filter the script keeps
filtro_final_efectivo(agr, piv, ff) == IF agr = None /\ piv = None THEN None ELSE ff

\* an uncaught exception: traceback on stderr, exit status 1
Abortar ==
    /\ pc' = "fin"
    /\ codigo' = 1

\* lines 186-229: argument count check, then the post-filter rule
Argumentos ==
    /\ pc = "argumentos"
    /\ IF origen = None
       THEN /\ salida' = Append(salida, "faltan_argumentos")
            /\ Abortar
            /\ UNCHANGED filtro_final
       ELSE /\ filtro_final' = filtro_final_efectivo(agrupacion, pivoteo, filtro_final)
            /\ pc' = "obtener_datos"
            /\ UNCHANGED <<salida, codigo>>
    /\ UNCHANGED <<config, df, resultado, conn, cierres, disco, eventos, etapas>>

\* lines 92-111: a .csv or .xlsx path is read; any other string goes to devolver
ObtenerDatos ==
    /\ pc = "obtener_datos"
    /\ IF endswith(origen[1], ".csv") \/ endswith(origen[1], ".xlsx")
       THEN /\ df' = fuente
            /\ etapas' = Append(etapas, Etapa("obtener_datos", TablaVacia, fuente))
            /\ pc' = siguiente("obtener_datos")
       ELSE /\ pc' = "conectar"
            /\ UNCHANGED <<df, etapas>>
    /\ UNCHANGED <<config, filtro_final, resultado, conn, cierres, salida, disco,
                   eventos, codigo>>

\* lines 48-63: db.connect succeeds, or fails and the process exits with 1
Conectar ==
    /\ pc = "conectar"
    /\ \E abre \in BOOLEAN :
        IF abre
        THEN /\ conn' = "open"
             /\ pc' = "read_sql"
             /\ UNCHANGED <<salida, codigo>>
        ELSE /\ salida' = Append(salida, "error_conexion")
             /\ Abortar
             /\ UNCHANGED conn
    /\ UNCHANGED <<config, filtro_final, df, resultado, cierres, disco, eventos, etapas>>

\* lines 77-83: pd.read_sql returns the result set, or raises
LeerSql ==
    /\ pc = "read_sql"
    /\ \E lee \in BOOLEAN :
        IF lee
        THEN /\ df' = fuente
             /\ pc' = "desconectar"
             /\ UNCHANGED salida
        ELSE /\ salida' = Append(salida, "error_lectura")
             /\ pc' = "desconectar_y_salir"
             /\ UNCHANGED df
    /\ UNCHANGED <<config, filtro_final, resultado, conn, cierres, disco, eventos,
                   etapas, codigo>>

\* try without a finally clause: the close is reached on the return path only
cierra_sin_finally(p) == p = "desconectar"

\* lines 85-87: the finally clause runs desconectar(conn) both when read_sql
\* returned and when the except clause called sys.exit(1)
cierra(p) == p \in {"desconectar", "desconectar_y_salir"}

\* lines 85-90 and 66-68: the finally clause closes, then devolver returns df or
\* the pending sys.exit(1) ends the process
Desconectar ==
    /\ pc \in {"desconectar", "desconectar_y_salir"}
    /\ conn' = IF cierra(pc) THEN "closed" ELSE conn
    /\ cierres' = IF cierra(pc) THEN cierres + 1 ELSE cierres
    /\ IF pc = "desconectar"
       THEN /\ etapas' = Append(etapas, Etapa("obtener_datos", TablaVacia, df))
            /\ pc' = siguiente("obtener_datos")
            /\ UNCHANGED codigo
       ELSE /\ Abortar
            /\ UNCHANGED etapas
    /\ UNCHANGED <<config, filtro_final, df, resultado, salida, disco, eventos>>

\* line 235
CamposDerivados ==
    /\ pc = "campos_derivados"
    /\ LET r == campos_derivados(df, calculados)
       IN  IF r.err
           THEN Abortar /\ UNCHANGED <<df, etapas>>
           ELSE /\ df' = r.t
                /\ etapas' = Append(etapas, Etapa("campos_derivados", df, r.t))
                /\ pc' = siguiente("campos_derivados")
                /\ UNCHANGED codigo
    /\ UNCHANGED <<config, filtro_final, resultado, conn, cierres, salida, disco, eventos>>

\* line 239
Filtrar ==
    /\ pc = "filtrar"
    /\ LET r == filtrar(df, filtro)
       IN  IF r.err
           THEN Abortar /\ UNCHANGED <<df, etapas>>
           ELSE /\ df' = r.t
                /\ etapas' = Append(etapas, Etapa("filtrar", df, r.t))
                /\ pc' = siguiente("filtrar")
                /\ UNCHANGED codigo
    /\ UNCHANGED <<config, filtro_final, resultado, conn, cierres, salida, disco, eventos>>

\* lines 242-254
Transformar ==
    /\ pc = "transformar"
    /\ LET r == transformar(df, agrupacion, acciones, pivoteo)
       IN  IF r.err
           THEN Abortar /\ UNCHANGED <<resultado, etapas, eventos>>
           ELSE /\ resultado' = r.t
                /\ etapas' = Append(etapas, Etapa("transformar", df, r.t))
                /\ eventos' = Append(eventos, <<"modo", modo(agrupacion, acciones, pivoteo)>>)
                /\ pc' = siguiente("transformar")
                /\ UNCHANGED codigo
    /\ UNCHANGED <<config, filtro_final, df, conn, cierres, salida, disco>>

\* lines 257-258
Redondeo ==
    /\ pc = "redondeo"
    /\ resultado' = IF decimales # 0 THEN round(resultado, decimales) ELSE resultado
    /\ etapas' = Append(etapas, Etapa("redondeo", resultado, resultado'))
    /\ pc' = siguiente("redondeo")
    /\ UNCHANGED <<config, filtro_final, df, conn, cierres, salida, disco, eventos, codigo>>

\* line 261
FiltroFinal ==
    /\ pc = "filtro_final"
    /\ LET r == filtrar(resultado, filtro_final)
       IN  IF r.err
           THEN Abortar /\ UNCHANGED <<resultado, etapas>>
           ELSE /\ resultado' = r.t
                /\ etapas' = Append(etapas, Etapa("filtro_final", resultado, r.t))
                /\ pc' = siguiente("filtro_final")
                /\ UNCHANGED codigo
    /\ UNCHANGED <<config, filtro_final, df, conn, cierres, salida, disco, eventos>>

\* line 264
Ordenar ==
    /\ pc = "ordenar"
    /\ \E r \in ordenar(resultado, orden) :
           IF r.err
           THEN Abortar /\ UNCHANGED <<resultado, etapas>>
           ELSE /\ resultado' = r.t
                /\ etapas' = Append(etapas, Etapa("ordenar", resultado, r.t))
                /\ pc' = siguiente("ordenar")
                /\ UNCHANGED codigo
    /\ UNCHANGED <<config, filtro_final, df, conn, cierres, salida, disco, eventos>>

\* the file exportar writes (lines 167-172), if any: <<method, path>>
exportar(dest, most) ==
    IF most /\ dest # None
    THEN IF endswith(dest[1], ".csv") THEN << <<"to_csv", dest[1]>> >>
         ELSE IF endswith(dest[1], ".xlsx") THEN << <<"to_excel", dest[1]>> >>
         ELSE <<>>
    ELSE <<>>

Rutas_de(escrituras) == {escrituras[i][2] : i \in 1..Len(escrituras)}

\* line 267 (os.startfile, Windows only, changes nothing the script reads)
Exportar ==
    /\ pc = "exportar"
    /\ eventos' = eventos \o exportar(destino, mostrar)
    /\ disco' = disco \cup Rutas_de(exportar(destino, mostrar))
    /\ etapas' = Append(etapas, Etapa("exportar", resultado, resultado))
    /\ pc' = siguiente("exportar")
    /\ UNCHANGED <<config, filtro_final, df, resultado, conn, cierres, salida, codigo>>

\* lines 276 and 289: a destination is "set" when it is neither "" nor "none"
destino_definido(d) == d # "" /\ path_lower(strip(d)) # "none"

\* the machine branch without its spreadsheet case
grabar_solo_csv(d) ==
    IF endswith(path_lower(d), ".csv") THEN << <<"to_csv", d>> >> ELSE <<>>

\* the files the machine branch writes (lines 276-281): <<method, path>>
grabar(d) ==
    IF endswith(path_lower(d), ".csv") THEN << <<"to_csv", d>> >>
    ELSE IF endswith(path_lower(d), ".xlsx") THEN << <<"to_excel", d>> >>
    ELSE <<>>

\* lines 270-292 and the handler of lines 310-313
Imprimir ==
    /\ pc = "imprimir"
    /\ IF mostrar
       THEN /\ salida' = Append(salida, "tabla")
            /\ pc' = "base64"
            /\ UNCHANGED <<disco, eventos, codigo>>
       ELSE IF destino = None
       THEN \* destino.strip() on None: AttributeError, caught at line 310
            /\ salida' = Append(salida, "ERROR_JSON")
            /\ pc' = "fin"
            /\ codigo' = 0
            /\ UNCHANGED <<disco, eventos>>
       ELSE IF destino_definido(destino[1])
       THEN /\ eventos' = eventos \o grabar(destino[1])
            /\ disco' = disco \cup Rutas_de(grabar(destino[1]))
            /\ pc' = "base64"
            /\ UNCHANGED <<salida, codigo>>
       ELSE /\ salida' = Append(salida, "json")
            /\ IF destino[1] # "" /\ path_lower(strip(destino[1])) # "none"
               THEN /\ eventos' = Append(eventos, <<"json", with_suffix_json(destino[1])>>)
                    /\ disco' = disco \cup {with_suffix_json(destino[1])}
               ELSE UNCHANGED <<disco, eventos>>
            /\ pc' = "base64"
            /\ UNCHANGED codigo
    /\ UNCHANGED <<config, filtro_final, df, resultado, conn, cierres, etapas>>

\* line 295: the condition of the encoded-return block
pide_base64(flag, dest, files) ==
    /\ flag
    /\ dest # None
    /\ dest[1] # ""
    /\ endswith(path_lower(dest[1]), ".xlsx")
    /\ dest[1] \in files

\* lines 295-300; without the block the script ends and the status is 0
Base64 ==
    /\ pc = "base64"
    /\ IF pide_base64(retornar_base64, destino, disco)
       THEN /\ salida' = Append(salida, "base64")
            /\ eventos' = Append(eventos, <<"read", destino[1]>>)
            /\ pc' = "borrar"
            /\ UNCHANGED codigo
       ELSE /\ pc' = "fin"
            /\ codigo' = 0
            /\ UNCHANGED <<salida, eventos>>
    /\ UNCHANGED <<config, filtro_final, df, resultado, conn, cierres, disco, etapas>>

\* lines 302-308: os.remove succeeds, or fails and is only reported; sys.exit(0)
Borrar ==
    /\ pc = "borrar"
    /\ \E borra \in BOOLEAN :
        IF borra
        THEN /\ disco' = disco \ {destino[1]}
             /\ eventos' = Append(eventos, <<"remove", destino[1]>>)
             /\ UNCHANGED salida
        ELSE /\ eventos' = Append(eventos, <<"remove_failed", destino[1]>>)
             /\ salida' = Append(salida, "no_se_pudo_borrar")
             /\ UNCHANGED disco
    /\ pc' = "fin"
    /\ codigo' = 0
    /\ UNCHANGED <<config, filtro_final, df, resultado, conn, cierres, etapas>>

------------------------------------------------------------------------------
(* Inputs *)

CeldasCat == {<<c>> : c \in CatVals} \cup {NaN}

CeldasAmt == {<<a>> : a \in AmtVals}

\* what read_csv / read_excel / read_sql return: columns cat and amt, a
\* RangeIndex, at most n rows
Fuentes(n) ==
    UNION {{Tabla("", <<"cat", "amt">>, [i \in 1..k |-> [idx |-> i - 1, v |-> f[i]]]) :
               f \in [1..k -> CeldasCat \X CeldasAmt]} : k \in 0..n}

\* the table of the documented scenario, on the values of the model
TablaEjemplo ==
    Tabla("", <<"cat", "amt">>,
          << [idx |-> 0, v |-> << <<"A">>, <<12>> >>],
             [idx |-> 1, v |-> << <<"B">>, <<5>> >>] >>)

ItemsEscalares ==
    {<<"cat", <<op, x>> >> : op \in {"==", "!=", ">", "<", ">=", "<="},
                             x \in {<<c>> : c \in CatVals}}
    \cup {<<"amt", <<op, x>> >> : op \in {"==", "!=", ">", "<", ">=", "<="},
                                  x \in CeldasAmt \cup {<<10>>}}
    \cup {<<c, <<op, NaN>> >> : c \in {"cat", "amt"}, op \in {"==", "!="}}

ItemsLista ==
    {<<"cat", <<op, l>> >> : op \in {"in", "not in", "IN"},
                             l \in {<< <<"A">> >>, << <<"A">>, <<"B">> >>, <<>>}}
    \cup {<<"amt", <<op, l>> >> : op \in {"in", "not in", "NOT IN"},
                                  l \in {<< <<5>> >>}}

ItemsTexto ==
    {<<c, <<op, pat>> >> : c \in {"cat", "amt"},
                           op \in {"contains", "startswith", "endswith", "Contains"},
                           pat \in {<<"A">>, <<"n">>, <<"1">>}}

\* items no branch of filtrar acts on: unknown operators, and values that are
\* not a list of two elements
ItemsSinEfecto ==
    {<<c, <<op, x>> >> : c \in {"cat", "zzz"}, op \in {"=", "like"}, x \in {<<"A">>}}
    \cup {<<"cat", <<"==">> >>, <<"amt", <<"==", <<5>>, <<5>> >> >>}

ItemsCampoAusente == {<<"zzz", <<"==", <<"A">> >> >>}

Items == ItemsEscalares \cup ItemsLista \cup ItemsTexto \cup ItemsSinEfecto
             \cup ItemsCampoAusente

\* filter dicts: absent, empty, one item, or two items on different keys of
\* which one is an item without effect
Filtros ==
    {None, Some(<<>>)}
    \cup {Some(<<i>>) : i \in Items}
    \cup UNION {{Some(<<i, j>>), Some(<<j, i>>)} :
                   <<i, j>> \in {p \in ItemsSinEfecto \X Items : p[1][1] # p[2][1]}}

Direcciones == {"asc", "desc", "ASC"}

Ordenes ==
    {None, Some(<<>>), Some(<< <<"zzz", "asc">> >>)}
    \cup {Some(<< <<c, d>> >>) : c \in {"cat", "amt"}, d \in Direcciones}
    \cup {Some(<< <<"cat", d>>, <<"amt", e>> >>) : d, e \in Direcciones}
    \cup {Some(<< <<"amt", d>>, <<"cat", e>> >>) : d, e \in Direcciones}

Agrupaciones ==
    {None, Some(<<>>), Some(<<"cat">>), Some(<<"amt">>), Some(<<"cat", "amt">>),
     Some(<<"amt", "cat">>), Some(<<"zzz">>)}

Acciones ==
    {None} \cup {Some(<< <<"amt", f>> >>) : f \in FuncionesAgg \cup {"median"}}
           \cup {Some(<< <<"cat", "count">> >>)}

Pivoteos ==
    {None, Some([index |-> "cat", values |-> "amt", aggfunc |-> "sum"]),
           Some([index |-> "amt", values |-> "cat", aggfunc |-> "count"])}

\* the arguments the single-statement specifications leave at their defaults,
\* read from a .csv origin
PorDefecto ==
    /\ origen = Some("datos.csv")
    /\ calculados = None
    /\ destino = Some("")
    /\ mostrar = FALSE
    /\ decimales = 0
    /\ retornar_base64 = FALSE
    /\ filtro_final = None
    /\ argv_filtro_final = None

SinEfectos ==
    /\ conn = "none"
    /\ cierres = 0
    /\ salida = <<>>
    /\ disco = {}
    /\ eventos = <<>>
    /\ codigo = -1

\* the stage records of a run that reached statement p with every optional
\* stage unconfigured, on source table t
EtapasPrevias(p, t) ==
    LET todas == <<Etapa("obtener_datos", TablaVacia, t), Etapa("campos_derivados", t, t),
                   Etapa("filtrar", t, t), Etapa("transformar", t, t),
                   Etapa("redondeo", t, t), Etapa("filtro_final", t, t)>>
    IN  CASE p = "filtrar" -> SubSeq(todas, 1, 2)
          [] p = "transformar" -> SubSeq(todas, 1, 3)
          [] p = "ordenar" -> todas

\* every run starts here: sys.argv read, nothing executed yet
Inicio ==
    /\ pc = "argumentos"
    /\ df = TablaVacia
    /\ resultado = TablaVacia
    /\ etapas = <<>>
    /\ SinEfectos

\* Input/output runs: every origin and destination, one table, no transformation
Init ==
    /\ Inicio
    /\ fuente = TablaEjemplo
    /\ origen \in {None} \cup {Some(o) : o \in Origenes}
    /\ destino \in {None} \cup {Some(d) : d \in Rutas}
    /\ mostrar \in BOOLEAN
    /\ retornar_base64 \in BOOLEAN
    /\ agrupacion = None
    /\ acciones = None
    /\ calculados = None
    /\ pivoteo = None
    /\ decimales = 0
    /\ filtro = None
    /\ orden = None
    /\ argv_filtro_final = None
    /\ filtro_final = argv_filtro_final
    \* positional arguments: without argv[1] or argv[5] nothing later is given
    /\ (origen = None => destino = None)
    /\ (destino = None => ~mostrar /\ ~retornar_base64)

Next ==
    \/ Argumentos
    \/ ObtenerDatos
    \/ Conectar
    \/ LeerSql
    \/ Desconectar
    \/ CamposDerivados
    \/ Filtrar
    \/ Transformar
    \/ Redondeo
    \/ FiltroFinal
    \/ Ordenar
    \/ Exportar
    \/ Imprimir
    \/ Base64
    \/ Borrar

Spec == Init /\ [][Next]_vars

\* Pipeline runs: every stage configured or not, tables of at most MaxFilas rows
InitEtapas ==
    /\ Inicio
    /\ fuente \in Fuentes(MaxFilas)
    /\ origen \in {Some("datos.csv"), Some("EXEC sp_ventas")}
    /\ agrupacion \in {None, Some(<<"cat">>)}
    /\ acciones \in {None, Some(<< <<"amt", "sum">> >>)}
    /\ calculados \in {None, Some(<< <<"amt", << <<"amt">>, "+", <<"lit", 3>> >> >> >>)}
    /\ pivoteo \in {None, Some([index |-> "cat", values |-> "amt", aggfunc |-> "sum"])}
    /\ decimales \in {0, -1}
    /\ filtro \in {None, Some(<< <<"amt", <<">=", <<15>> >> >> >>)}
    /\ argv_filtro_final \in {None, Some(<< <<"amt", <<"==", <<20>> >> >> >>)}
    /\ filtro_final = argv_filtro_final
    /\ orden \in {None, Some(<< <<"amt", "desc">> >>)}
    /\ destino = Some("out.xlsx")
    /\ mostrar = FALSE
    /\ retornar_base64 = TRUE

SpecEtapas == InitEtapas /\ [][Next]_vars

\* filtrar alone, applied by the pre-filter statement
InitFiltrar ==
    /\ PorDefecto
    /\ SinEfectos
    /\ pc = "filtrar"
    /\ fuente \in Fuentes(MaxFilas)
    /\ df = fuente
    /\ resultado = TablaVacia
    /\ etapas = EtapasPrevias("filtrar", fuente)
    /\ filtro \in Filtros
    /\ orden = None
    /\ agrupacion = None
    /\ acciones = None
    /\ pivoteo = None

SpecFiltrar == InitFiltrar /\ [][Filtrar]_vars

\* the aggregation / pivot statement alone
InitTransformar ==
    /\ PorDefecto
    /\ SinEfectos
    /\ pc = "transformar"
    /\ fuente \in Fuentes(MaxFilas)
    /\ df = fuente
    /\ resultado = TablaVacia
    /\ etapas = EtapasPrevias("transformar", fuente)
    /\ filtro = None
    /\ orden = None
    /\ agrupacion \in Agrupaciones
    /\ acciones \in Acciones
    /\ pivoteo \in Pivoteos

SpecTransformar == InitTransformar /\ [][Transformar]_vars

\* ordenar alone, applied by the sort statement
InitOrdenar ==
    /\ PorDefecto
    /\ SinEfectos
    /\ pc = "ordenar"
    /\ fuente \in Fuentes(MaxFilas)
    /\ df = fuente
    /\ resultado = fuente
    /\ etapas = EtapasPrevias("ordenar", fuente)
    /\ filtro = None
    /\ orden \in Ordenes
    /\ agrupacion = None
    /\ acciones = None
    /\ pivoteo = None

SpecOrdenar == InitOrdenar /\ [][Ordenar]_vars

------------------------------------------------------------------------------
(* Properties *)

Corrio(n) == \E i \in 1..Len(etapas) : etapas[i].nombre = n

EtapaDe(n) == etapas[CHOOSE i \in 1..Len(etapas) : etapas[i].nombre = n]

EnSalida(x) == \E i \in 1..Len(salida) : salida[i] = x

EsModo(e) == e[1] = "modo"

EsArchivo(e) == e[1] # "modo"

ModosCorridos == SelectSeq(eventos, EsModo)

EventosArchivo == SelectSeq(eventos, EsArchivo)

FilasDe(t) == {t.rows[i] : i \in 1..Len(t.rows)}

\* the rows keep the order of their labels, i.e. the order of the source
EnOrden(rows) == \A i, j \in 1..Len(rows) : i < j => rows[i].idx < rows[j].idx

\* C1: the post-filter acts on the result only when group fields or a pivot
\* spec were supplied; when neither was, the supplied post-filter is dropped
\* before the filter statement, which then removes no row and raises nothing
\* (pass-through and bare aggregation alike).
C1_PostFiltroSoloConAgrupacionOPivot ==
    /\ (pc # "argumentos" /\ agrupacion = None /\ pivoteo = None) => filtro_final = None
    /\ Corrio("filtro_final") =>
           LET e == EtapaDe("filtro_final")
           IN  IF agrupacion = None /\ pivoteo = None
               THEN e.salida = e.entrada
               ELSE Ok(e.salida) = filtrar(e.entrada, argv_filtro_final)
    /\ (pc = "fin" /\ codigo = 1 /\ Len(etapas) = 5) =>
           (agrupacion # None \/ pivoteo # None)

\* a run without group fields and pivot whose supplied post-filter would have
\* changed the outcome, past the filter statement
C1_Testigo ==
    /\ Corrio("filtro_final")
    /\ argv_filtro_final # None
    /\ agrupacion = None
    /\ pivoteo = None
    /\ filtrar(EtapaDe("filtro_final").entrada, argv_filtro_final)
           # Ok(EtapaDe("filtro_final").entrada)

\* the mode the claim assigns to each combination of present / absent inputs
ModoEsperado ==
    CASE pivoteo # None -> "pivot"
      [] pivoteo = None /\ agrupacion # None /\ acciones # None -> "grouped_agg"
      [] pivoteo = None /\ agrupacion # None /\ acciones = None -> "grouped_count"
      [] pivoteo = None /\ agrupacion = None /\ acciones # None -> "bare_agg"
      [] pivoteo = None /\ agrupacion = None /\ acciones = None -> "pass_through"

\* C2: for every combination of present / absent group fields, aggregation
\* spec and pivot spec exactly one mode runs: pivot whenever a pivot spec is
\* present, else grouped aggregation, grouped count (column "cantidad"), bare
\* aggregation, or the unmodified table.
C2_UnModoPorCombinacion ==
    /\ pc = "redondeo" =>
        /\ ModosCorridos = << <<"modo", ModoEsperado>> >>
        /\ CASE ModoEsperado = "pivot" ->
                    /\ resultado.iname = pivoteo[1].index
                    /\ resultado.cols = <<pivoteo[1].values>>
             [] ModoEsperado = "grouped_agg" ->
                    /\ resultado.cols =
                           agrupacion[1] \o [i \in 1..Len(acciones[1]) |-> acciones[1][i][1]]
                    /\ Ok(resultado) = groupby_agg(df, agrupacion[1], acciones[1])
             [] ModoEsperado = "grouped_count" ->
                    /\ resultado.cols = Append(agrupacion[1], "cantidad")
                    /\ Ok(resultado) = groupby_size(df, agrupacion[1])
             [] ModoEsperado = "bare_agg" ->
                    /\ resultado.cols = <<"index", "0">>
                    /\ Len(resultado.rows) = Len(acciones[1])
             [] ModoEsperado = "pass_through" -> resultado = df
    /\ (pc = "fin" /\ codigo = 1) => ModoEsperado # "pass_through"

\* group fields, aggregation spec and pivot spec all present: the pivot ran
C2_Testigo ==
    /\ pc = "redondeo"
    /\ pivoteo # None
    /\ agrupacion # None
    /\ acciones # None
    /\ resultado.iname = "cat"
    /\ Len(resultado.rows) = 2

\* what the pre-filter statement gave: a table, or an exception
Observado == IF pc = "transformar" THEN Ok(df) ELSE Error

SinItem(items, i) == SubSeq(items, 1, i - 1) \o SubSeq(items, i + 1, Len(items))

\* C3 as stated: an item whose operator is not, as written, one of the eleven
\* operators is ignored: the outcome is that of the dict without the item.
C3_OperadorNoListadoIgnorado ==
    (pc # "filtrar" /\ filtro # None) =>
        \A i \in 1..Len(filtro[1]) :
            (Len(filtro[1][i][2]) = 2 /\ filtro[1][i][2][1] \notin Operadores) =>
                Observado = filtrar(fuente, Some(SinItem(filtro[1], i)))

\* C3: an item whose operator, lower-cased, is none of the eleven operators is
\* ignored: no error, and the outcome is that of the dict without the item
\* (every row passes for that field).
C3_OperadorDesconocidoIgnorado ==
    (pc # "filtrar" /\ filtro # None) =>
        \A i \in 1..Len(filtro[1]) :
            (Len(filtro[1][i][2]) = 2 /\ lower(filtro[1][i][2][1]) \notin Operadores) =>
                /\ Observado = filtrar(fuente, Some(SinItem(filtro[1], i)))
                /\ Len(filtro[1]) = 1 => Observado = Ok(fuente)

\* an unknown operator on a field the table lacks, next to an item that
\* removed rows
C3_Testigo ==
    /\ pc = "transformar"
    /\ filtro # None
    /\ Len(filtro[1]) = 2
    /\ \E i \in 1..2 : /\ filtro[1][i][1] = "zzz"
                       /\ lower(filtro[1][i][2][1]) \notin Operadores
    /\ Len(df.rows) < Len(fuente.rows)

\* the pre-filter is one "==" or "!=" item on a column of the table
EsIgualdad ==
    /\ filtro # None
    /\ Len(filtro[1]) = 1
    /\ Len(filtro[1][1][2]) = 2
    /\ filtro[1][1][2][1] \in {"==", "!="}
    /\ TieneCol(fuente, filtro[1][1][1])

FiltroCon(op) == Some(<< <<filtro[1][1][1], <<op, filtro[1][1][2][2]>> >> >>)

\* the outcome of "==" and of "!=" on the same table, field and operand: the
\* one the run computed, and the other one
ConIgual == IF filtro[1][1][2][1] = "==" THEN df ELSE filtrar(fuente, FiltroCon("==")).t

ConDistinto == IF filtro[1][1][2][1] = "!=" THEN df ELSE filtrar(fuente, FiltroCon("!=")).t

\* the rows of the source whose field is the operand (None is None)
Iguales == {r \in FilasDe(fuente) : Celda(fuente, r, filtro[1][1][1]) = filtro[1][1][2][2]}

\* the rows of the source whose field is the operand, a None operand being
\* equal to nothing
IgualesNoNulos == IF EsNulo(filtro[1][1][2][2]) THEN {} ELSE Iguales

Particion(iguales) ==
    /\ FilasDe(ConIgual) = iguales
    /\ FilasDe(ConDistinto) = FilasDe(fuente) \ iguales
    /\ Len(ConIgual.rows) + Len(ConDistinto.rows) = Len(fuente.rows)
    /\ EnOrden(ConIgual.rows)
    /\ EnOrden(ConDistinto.rows)

\* C4 as stated: for every operand "==" keeps exactly the rows whose field
\* equals the operand and "!=" exactly the other rows, in the input's order.
C4_IgualYDistintoParticionan == (pc = "transformar" /\ EsIgualdad) => Particion(Iguales)

\* C4: for every non-null operand "==" keeps exactly the rows whose field
\* equals the operand and "!=" exactly the other rows (null rows among them);
\* for a None operand "==" keeps no row and "!=" keeps every row. In both
\* cases the results are disjoint, cover the input and keep its order.
C4_IgualYDistintoParticionanNoNulo ==
    (pc = "transformar" /\ EsIgualdad) => Particion(IgualesNoNulos)

\* "==" on cat with a non-null operand, over a table with a null row and a
\* matching row
C4_Testigo ==
    /\ pc = "transformar"
    /\ EsIgualdad
    /\ filtro[1][1] = <<"cat", <<"==", <<"A">> >> >>
    /\ Len(fuente.rows) = 2
    /\ \E r \in FilasDe(fuente) : EsNulo(Celda(fuente, r, "cat"))
    /\ Len(df.rows) = 1

\* the run is in grouped-count mode and the aggregation statement has run
EnConteo == pc = "redondeo" /\ agrupacion # None /\ acciones = None /\ pivoteo = None

SumaCantidad ==
    Suma([i \in 1..Len(resultado.rows) |-> Celda(resultado, resultado.rows[i], "cantidad")[1]])

ClaveDe(r) == [k \in 1..Len(agrupacion[1]) |-> Celda(df, r, agrupacion[1][k])]

FilasConClave == {r \in FilasDe(df) : \A k \in 1..Len(agrupacion[1]) : ~EsNulo(ClaveDe(r)[k])}

\* C5 as stated: in grouped-count mode "cantidad" sums to the number of rows of
\* the filtered table, null group keys included, and the result has one row
\* per distinct key combination of that table.
C5_CantidadSumaFilas ==
    EnConteo =>
        /\ SumaCantidad = Len(df.rows)
        /\ Len(resultado.rows) = Cardinality({ClaveDe(r) : r \in FilasDe(df)})

\* C5: in grouped-count mode "cantidad" sums to the number of rows of the
\* filtered table whose group fields are all non-null, and the result has one
\* row per distinct key combination of those rows.
C5_CantidadSumaFilasConClave ==
    EnConteo =>
        /\ TieneCol(resultado, "cantidad")
        /\ SumaCantidad = Cardinality(FilasConClave)
        /\ Len(resultado.rows) = Cardinality({ClaveDe(r) : r \in FilasConClave})

\* a grouped count over a table with a null key and a non-null key
C5_Testigo ==
    /\ EnConteo
    /\ agrupacion = Some(<<"cat">>)
    /\ Len(df.rows) = 2
    /\ Cardinality(FilasConClave) = 1
    /\ SumaCantidad = 1

ClavesOrden == [i \in 1..Len(orden[1]) |-> orden[1][i][1]]

Ascendente == [i \in 1..Len(orden[1]) |-> lower(orden[1][i][2]) = "asc"]

\* C6: ordenar is one stable multi-key sort, for one key as for several: the
\* result holds the rows of the input ordered by the keys, first key first,
\* each in its direction, and rows equal on every key keep their input order.
C6_OrdenEstable ==
    (pc = "exportar" /\ orden # None /\ Len(orden[1]) >= 1) =>
        /\ FilasDe(resultado) = FilasDe(fuente)
        /\ \A i, j \in 1..Len(resultado.rows) : i < j =>
               LET c == CompararClaves(resultado, ClavesOrden, Ascendente,
                                       resultado.rows[i], resultado.rows[j])
               IN  c < 0 \/ (c = 0 /\ resultado.rows[i].idx < resultado.rows[j].idx)

EsConsulta == origen # None /\ ~endswith(origen[1], ".csv") /\ ~endswith(origen[1], ".xlsx")

\* C7: with a query origin, a connection that was opened is closed exactly once
\* before devolver returns or the process ends, whether read_sql succeeded or
\* failed (failure: reported, exit status 1); when the connection cannot be
\* opened the process exits with status 1 and nothing is closed.
C7_ConexionCerradaUnaVez ==
    /\ cierres <= 1
    /\ (conn = "open") => pc \in {"read_sql", "desconectar", "desconectar_y_salir"}
    /\ (conn = "closed") => (cierres = 1 /\ EsConsulta)
    /\ (conn = "none") => cierres = 0
    /\ (EsConsulta /\ Corrio("obtener_datos")) => (conn = "closed" /\ cierres = 1)
    /\ (EnSalida("error_lectura") /\ pc = "fin") =>
           (conn = "closed" /\ cierres = 1 /\ codigo = 1 /\ ~Corrio("obtener_datos"))
    /\ EnSalida("error_conexion") =>
           (pc = "fin" /\ codigo = 1 /\ conn = "none" /\ cierres = 0)

\* the query failed after the connection was opened, and the process has ended
C7_Testigo ==
    /\ pc = "fin"
    /\ EsConsulta
    /\ EnSalida("error_lectura")
    /\ cierres = 1
    /\ codigo = 1

\* the run asks for the encoded spreadsheet: flag set, destination ending in
\* ".xlsx", and the statements up to exportar have run
PideExcelCodificado ==
    /\ retornar_base64
    /\ destino # None
    /\ endswith(destino[1], ".xlsx")
    /\ Corrio("exportar")

\* C8: with the encoded-return flag and a .xlsx destination the run writes the
\* spreadsheet, then prints its base64 text, then tries to delete the file, in
\* that order; a failed deletion is only reported and the exit status is 0
\* either way; after a successful deletion the file does not exist.
C8_EscribeCodificaBorra ==
    /\ (PideExcelCodificado /\ pc = "fin") =>
        /\ codigo = 0
        /\ Len(EventosArchivo) = 3
        /\ EventosArchivo[1] = <<"to_excel", destino[1]>>
        /\ EventosArchivo[2] = <<"read", destino[1]>>
        /\ EventosArchivo[3][1] \in {"remove", "remove_failed"}
        /\ EventosArchivo[3][2] = destino[1]
        /\ Cardinality({i \in 1..Len(salida) : salida[i] = "base64"}) = 1
        /\ EventosArchivo[3][1] = "remove" =>
               (destino[1] \notin disco /\ ~EnSalida("no_se_pudo_borrar"))
        /\ EventosArchivo[3][1] = "remove_failed" =>
               (destino[1] \in disco /\ salida[Len(salida)] = "no_se_pudo_borrar")
    /\ (PideExcelCodificado /\ pc = "borrar") =>
        /\ EventosArchivo = << <<"to_excel", destino[1]>>, <<"read", destino[1]>> >>
        /\ salida[Len(salida)] = "base64"
        /\ destino[1] \in disco

\* an encoded-return run whose deletion failed, ended
C8_Testigo ==
    /\ pc = "fin"
    /\ PideExcelCodificado
    /\ codigo = 0
    /\ EventosArchivo[3] = <<"remove_failed", "out.xlsx">>

\* C9: in machine mode, whenever the JSON line is printed and a destination is
\* set, the .json sibling of the destination is written; and with the
\* destination argument omitted the JSON line is printed and no error line is.
C9_JsonYArchivoHermano ==
    (pc = "fin" /\ ~mostrar /\ Corrio("exportar")) =>
        /\ (EnSalida("json") /\ destino # None /\ destino_definido(destino[1])) =>
               \E i \in 1..Len(eventos) :
                   eventos[i] = <<"json", with_suffix_json(destino[1])>>
        /\ (destino = None) => (EnSalida("json") /\ ~EnSalida("ERROR_JSON"))

\* what the script does instead: the JSON line is printed exactly when the
\* destination is "" or spells "none", never with a .json file, and an omitted
\* destination gives the error line
C9_Observado ==
    (pc = "fin" /\ ~mostrar /\ Corrio("exportar")) =>
        /\ EnSalida("json") <=> (destino # None /\ ~destino_definido(destino[1]))
        /\ \A i \in 1..Len(eventos) : eventos[i][1] # "json"
        /\ (destino = None) => (salida = <<"ERROR_JSON">> /\ codigo = 0)

OrdenEtapas ==
    <<"obtener_datos", "campos_derivados", "filtrar", "transformar", "redondeo",
      "filtro_final", "ordenar", "exportar">>

\* the configuration of the k-th stage is absent
SinConfigurar(k) ==
    CASE k = 2 -> calculados = None
      [] k = 3 -> filtro = None
      [] k = 4 -> agrupacion = None /\ acciones = None /\ pivoteo = None
      [] k = 5 -> decimales = 0
      [] k = 6 -> argv_filtro_final = None
      [] k = 7 -> orden = None
      [] OTHER -> FALSE

\* C10: the stages run in the order source, derived fields, pre-filter,
\* aggregation / pivot, rounding, post-filter, sort, export, each on the whole
\* output of the one before: derived fields see every source row, the
\* post-filter sees rounded values, the sort sees the post-filtered table,
\* nothing is written or printed before the sort has run, and a stage without
\* configuration returns its input.
C10_EtapasEnOrden ==
    /\ Len(etapas) <= Len(OrdenEtapas)
    /\ \A k \in 1..Len(etapas) : etapas[k].nombre = OrdenEtapas[k]
    /\ \A k \in 2..Len(OrdenEtapas) : (pc = OrdenEtapas[k]) => Len(etapas) = k - 1
    /\ Len(etapas) >= 1 => etapas[1].salida = fuente
    /\ \A k \in 2..Len(etapas) : etapas[k].entrada = etapas[k - 1].salida
    /\ \A k \in 2..Len(etapas) : SinConfigurar(k) => etapas[k].salida = etapas[k].entrada
    /\ Len(etapas) >= 2 => Len(etapas[2].salida.rows) = Len(fuente.rows)
    /\ Len(etapas) >= 6 =>
           etapas[6].entrada = (IF decimales # 0 THEN round(etapas[4].salida, decimales)
                                ELSE etapas[4].salida)
    /\ (EventosArchivo # <<>> \/ EnSalida("json") \/ EnSalida("tabla")
            \/ EnSalida("base64")) => Len(etapas) = Len(OrdenEtapas)

\* a complete run with every stage configured in which the post-filter keeps
\* a row only because its value was rounded first
C10_Testigo ==
    /\ pc = "fin"
    /\ codigo = 0
    /\ Len(etapas) = Len(OrdenEtapas)
    /\ calculados # None
    /\ filtro # None
    /\ agrupacion # None
    /\ acciones # None
    /\ decimales # 0
    /\ filtro_final # None
    /\ orden # None
    /\ Len(etapas[6].salida.rows) = 1
    /\ filtrar(etapas[4].salida, filtro_final) = Ok([etapas[4].salida EXCEPT !.rows = <<>>])

\* C6 for two or more keys
C6_OrdenEstableVariasClaves ==
    (pc = "exportar" /\ orden # None /\ Len(orden[1]) >= 2) =>
        /\ FilasDe(resultado) = FilasDe(fuente)
        /\ \A i, j \in 1..Len(resultado.rows) : i < j =>
               LET c == CompararClaves(resultado, ClavesOrden, Ascendente,
                                       resultado.rows[i], resultado.rows[j])
               IN  c < 0 \/ (c = 0 /\ resultado.rows[i].idx < resultado.rows[j].idx)

====
